---- MODULE Spec2Model ----
(***************************************************************************)
(* A model of the mongo_doc object-document mapper: the Document class     *)
(* (construction, change detection, save, delete_field, collection-level   *)
(* find/delete), the schema validator injected by create_collection_class, *)
(* and the MongoDB collection the documents are stored in.                 *)
(***************************************************************************)
EXTENDS Integers, Sequences, FiniteSets, TLC

(***************************************************************************)
(* Bounds of the model.                                                    *)
(***************************************************************************)
NumInst == 2        \* Document instances alive in the program
MaxId == 2          \* ObjectIds the store generates before the model stops inserting
MaxCalls == 8       \* calls the program makes in one run
MaxRetries == 4     \* largest retries argument of init_db
MaxRetryDelay == 2  \* largest retry_delay argument of init_db

Insts == 1 .. NumInst
Ids == 1 .. MaxId

(***************************************************************************)
(* Values.  A value is a tuple <<kind, payload...>>: Python's None, a str, *)
(* an int, or a dict with one entry (an embedded document / a filter map). *)
(***************************************************************************)
None == <<"none">>
StrA == <<"str", "a">>
StrB == <<"str", "b">>
Int1 == <<"int", "1">>
DictFA == <<"dict", "f", StrA>>

KindOf(v) == v[1]
IsDict(v) == KindOf(v) = "dict"

\* The empty dict {}
EmptyDoc == [k \in {} |-> None]

\* dict(d, **{f: v})
DictSet(d, f, v) == [k \in DOMAIN d \cup {f} |-> IF k = f THEN v ELSE d[k]]

\* {k: d[k] for k in S}
DictRestrict(d, S) == [k \in S |-> d[k]]

\* d.update(e)
DictUpdate(d, e) ==
    [k \in DOMAIN d \cup DOMAIN e |-> IF k \in DOMAIN e THEN e[k] ELSE d[k]]

\* d.get(k)
DictGet(d, k) == IF k \in DOMAIN d THEN d[k] ELSE None

(***************************************************************************)
(* State.                                                                  *)
(*   store   the collection: a map from the _id of each stored record to   *)
(*           its other fields                                              *)
(*   nextId  the next ObjectId insert_one generates                        *)
(*   schema  the schema of the collection class User (create_collection_   *)
(*           class): [declared |-> FALSE] is schema=None                   *)
(*   inst    the Document instances of the program.  cls is the class:     *)
(*           "User" is a class made by create_collection_class, "Document" *)
(*           the base class, whose collection is None.  hasId tells        *)
(*           whether the attribute _id exists, id is its value (0 is None),*)
(*           fields is __dict__ without _id.  dirty is the set of fields   *)
(*           assigned since the instance was constructed, fetched or saved.*)
(*   last    the last call made: which method (op) on which instance, the  *)
(*           error it raised (err, with the field or the _id the message   *)
(*           names), the insert_one and update_one calls it issued (ins,   *)
(*           upd), the keys _has_changed returned (changed), the value     *)
(*           is_saved returned or whether get_by_id returned a document    *)
(*           (ret), the keyword arguments of find and delete, the values   *)
(*           of find_in, and the ids of the documents find and find_in     *)
(*           returned, in order                                            *)
(*   calls   the number of calls the program has made                      *)
(*   db      DataBase.db, the process-wide database handle: the name of    *)
(*           the database selected, or "None"                              *)
(*   instances  DataBase.instances, the registry of collection classes     *)
(*   env     the environment: whether MONGO_DB_CONNECTION_STRING and       *)
(*           MONGO_DB_NAME are set                                         *)
(*   trial   the last call of init_db or create_collection_class: its      *)
(*           arguments, the attempts made, the delays slept, and how it    *)
(*           ended                                                         *)
(*   proc    the save() calls in progress when saves run concurrently: for *)
(*           each instance the position in save(), the keys still to be    *)
(*           read by _has_changed and the changed fields found so far      *)
(***************************************************************************)
VARIABLES store, nextId, schema, inst, last, calls, db, instances, env, trial, proc

\* The process-wide connection state
connection == <<db, instances, env, trial>>

vars == <<store, nextId, schema, inst, last, calls, db, instances, env, trial, proc>>

NoId == 0

\* An id that is not a valid ObjectId (bson.errors.InvalidId)
Malformed == -1

FreeInst ==
    [state |-> "free", cls |-> "User", hasId |-> TRUE, id |-> NoId,
     fields |-> EmptyDoc, dirty |-> {}]

NoSchema == [declared |-> FALSE, rules |-> <<>>]

NoCall ==
    [op |-> "none", inst |-> 0, err |-> "ok", field |-> "", id |-> NoId,
     ins |-> 0, upd |-> 0, changed |-> {}, ret |-> FALSE,
     kwargs |-> EmptyDoc, found |-> <<>>, values |-> {}]

Call(op, i) == [NoCall EXCEPT !.op = op, !.inst = i]

Raise(c, err, field, id) == [c EXCEPT !.err = err, !.field = field, !.id = id]

Live(i) == inst[i].state = "live"

\* No call of init_db or create_collection_class yet
NoTrial ==
    [op |-> "none", err |-> "ok", cause |-> 0, retries |-> 0, retry_delay |-> 0,
     reach |-> <<>>, attempts |-> 0, slept |-> <<>>, database |-> "",
     name |-> "", returned |-> [collection |-> "", schema |-> ""]]

\* No save() in progress
Idle == [pc |-> "idle", keys |-> {}, changed_fields |-> EmptyDoc, wrote |-> {}]

\* cls.collection: None for the base class Document
collection(cls) == IF cls = "User" THEN "users" ELSE "None"

(***************************************************************************)
(* The store (a pymongo collection).                                       *)
(***************************************************************************)

\* One condition {k: v} of a query filter, on the record rec: equality, where
\* null also matches a missing field and a dict matches an equal embedded
\* document.
MatchField(rec, k, v) ==
    IF v = None
    THEN k \notin DOMAIN rec \/ rec[k] = None
    ELSE k \in DOMAIN rec /\ rec[k] = v

\* Does the record rec satisfy the query filter flt
Matches(rec, flt) == \A k \in DOMAIN flt : MatchField(rec, k, flt[k])

\* collection.find(flt): the ids of the records found
StoreFind(st, flt) == {id \in DOMAIN st : Matches(st[id], flt)}

\* collection.delete_many(flt)
StoreDeleteMany(st, flt) == DictRestrict(st, DOMAIN st \ StoreFind(st, flt))

\* collection.insert_one(doc), the store generating the _id
StoreInsertOne(st, id, doc) == DictSet(st, id, doc)

\* collection.update_one({'_id': id}, {'$set': changes})
StoreSet(st, id, changes) ==
    IF id \in DOMAIN st THEN [st EXCEPT ![id] = DictUpdate(@, changes)] ELSE st

\* An unset that reaches every record of the collection
StoreUnset_many(st, id, field) ==
    [k \in DOMAIN st |-> DictRestrict(st[k], DOMAIN st[k] \ {field})]

\* update_one({'_id': id}, {"$unset": {field: ""}})
StoreUnset(st, id, field) ==
    IF id \in DOMAIN st
    THEN [st EXCEPT ![id] = DictRestrict(@, DOMAIN @ \ {field})]
    ELSE st

\* update_result.matched_count of an update_one matching on _id
MatchedCount(st, id) == IF id \in DOMAIN st THEN 1 ELSE 0

\* _has_changed when the stored value is not compared with the value held
has_changed_all_fields(fields, id, st) ==
    DictRestrict(fields,
        {key \in DOMAIN fields : id \in DOMAIN st /\ key \in DOMAIN st[id]})

(***************************************************************************)
(* Document._has_changed: for every key of __dict__ but _id, the stored    *)
(* record is read with find_one({'_id': self._id}, {key: 1}); the key is   *)
(* changed when a record is found, holds the key, and holds another value. *)
(***************************************************************************)
has_changed(fields, id, st) ==
    DictRestrict(fields,
        {key \in DOMAIN fields :
            /\ id \in DOMAIN st
            /\ key \in DOMAIN st[id]
            /\ st[id][key] # fields[key]})

(***************************************************************************)
(* _validate: the declared fields in schema order (validator, required,    *)
(* type), then the fields of the instance that the schema does not declare.*)
(* The result is the error raised and the field it names, or "ok".         *)
(***************************************************************************)
Passed == [err |-> "ok", field |-> ""]

\* CheckRule when a required field is only checked to be present
CheckRule_absent_only(rule, fields) ==
    LET field_value == DictGet(fields, rule.name)
    IN  IF rule.hasValidator /\ field_value \notin rule.accepts
        THEN [err |-> "invalid", field |-> rule.name]
        ELSE IF rule.required /\ rule.name \notin DOMAIN fields
        THEN [err |-> "missing_required", field |-> rule.name]
        ELSE IF field_value # None /\ KindOf(field_value) # rule.type
        THEN [err |-> "type_mismatch", field |-> rule.name]
        ELSE Passed

\* The three checks of one declared field (the body of the first loop)
CheckRule(rule, fields) ==
    LET field_value == DictGet(fields, rule.name)
    IN  IF rule.hasValidator /\ field_value \notin rule.accepts
        THEN [err |-> "invalid", field |-> rule.name]
        ELSE IF rule.required /\ field_value = None
        THEN [err |-> "missing_required", field |-> rule.name]
        ELSE IF field_value # None /\ KindOf(field_value) # rule.type
        THEN [err |-> "type_mismatch", field |-> rule.name]
        ELSE Passed

\* The first loop, from rule n on: the first failing check raises
RECURSIVE CheckRules(_, _, _)
CheckRules(rules, fields, n) ==
    IF n > Len(rules) THEN Passed
    ELSE IF CheckRule(rules[n], fields).err # "ok" THEN CheckRule(rules[n], fields)
    ELSE CheckRules(rules, fields, n + 1)

\* The names the schema declares (the keys of the schema dict)
Declared(rules) == {rules[n].name : n \in 1 .. Len(rules)}

\* The second loop when it lets every field pass
CheckUnknown_skipped(rules, fields) == Passed

\* The second loop: a field of the instance that is not in the schema
CheckUnknown(rules, fields) ==
    LET unknown == DOMAIN fields \ Declared(rules)
    IN  IF unknown = {} THEN Passed
        ELSE [err |-> "unknown_field", field |-> CHOOSE k \in unknown : TRUE]

\* _validate with the two loops in the other order
validate_unknown_first(rules, fields) ==
    IF CheckUnknown(rules, fields).err # "ok"
    THEN CheckUnknown(rules, fields)
    ELSE CheckRules(rules, fields, 1)

\* _validate: the loop over the schema, then the loop over the fields
validate(rules, fields) ==
    IF CheckRules(rules, fields, 1).err # "ok"
    THEN CheckRules(rules, fields, 1)
    ELSE CheckUnknown(rules, fields)

\* cls.schema: the base class Document has none
schema_of(cls, sch) == IF cls = "User" THEN sch ELSE NoSchema

(***************************************************************************)
(* Document.save on the instance me, with the store st: the instance, the  *)
(* store and the call record afterwards.  storeOk is whether the store     *)
(* carries out the operations of this call; when it does not, the first    *)
(* store operation of the call raises.                                     *)
(***************************************************************************)

\* insert_path when the generated identity is not assigned to the instance
insert_path_no_id(me, st, nid, storeOk, c) ==
    [inst |-> [me EXCEPT !.dirty = {}],
     store |-> StoreInsertOne(st, nid, me.fields),
     nextId |-> nid + 1,
     last |-> [c EXCEPT !.ins = 1]]

\* _id is None: del self._id; insert_one(self.__dict__); self._id = inserted_id
insert_path(me, st, nid, storeOk, c) ==
    IF storeOk
    THEN [inst |-> [me EXCEPT !.id = nid, !.dirty = {}],
          store |-> StoreInsertOne(st, nid, me.fields),
          nextId |-> nid + 1,
          last |-> [c EXCEPT !.ins = 1]]
    ELSE [inst |-> [me EXCEPT !.hasId = FALSE],
          store |-> st,
          nextId |-> nid,
          last |-> Raise(c, "store_error", "", NoId)]

\* update_path when the update sets every field of __dict__, not the changed
\* ones
update_path_all_fields(me, st, nid, storeOk, c) ==
    LET changed_fields == has_changed(me.fields, me.id, st)
        issued == [c EXCEPT !.upd = 1, !.changed = DOMAIN changed_fields]
    IN  IF DOMAIN changed_fields = {}
        THEN [inst |-> [me EXCEPT !.dirty = {}], store |-> st, nextId |-> nid,
              last |-> c]
        ELSE [inst |-> [me EXCEPT !.dirty = {}],
              store |-> StoreSet(st, me.id, me.fields),
              nextId |-> nid,
              last |-> issued]

\* _id is not None: nothing when _has_changed() is empty, else update_one with
\* $set of the changed fields, and ValueError when it matched no record
update_path(me, st, nid, storeOk, c) ==
    LET changed_fields == has_changed(me.fields, me.id, st)
        issued == [c EXCEPT !.upd = 1, !.changed = DOMAIN changed_fields]
    IN  IF ~storeOk /\ DOMAIN me.fields # {}
        THEN [inst |-> me, store |-> st, nextId |-> nid,
              last |-> Raise(c, "store_error", "", NoId)]
        ELSE IF DOMAIN changed_fields = {}
        THEN [inst |-> [me EXCEPT !.dirty = {}], store |-> st, nextId |-> nid,
              last |-> c]
        ELSE IF MatchedCount(st, me.id) = 0
        THEN [inst |-> me, store |-> st, nextId |-> nid,
              last |-> Raise(issued, "missing_document", "", me.id)]
        ELSE [inst |-> [me EXCEPT !.dirty = {}],
              store |-> StoreSet(st, me.id, changed_fields),
              nextId |-> nid,
              last |-> issued]

\* save when validate() is called after the store operation
save_result_validate_late(me, st, nid, sch, storeOk, c) ==
    LET checked == validate(schema_of(me.cls, sch).rules, me.fields)
        r == IF me.id = NoId
             THEN insert_path(me, st, nid, storeOk, c)
             ELSE update_path(me, st, nid, storeOk, c)
    IN  IF collection(me.cls) = "None"
        THEN [inst |-> me, store |-> st, nextId |-> nid,
              last |-> Raise(c, "collection_error", "", NoId)]
        ELSE IF schema_of(me.cls, sch).declared /\ checked.err # "ok"
        THEN [r EXCEPT !.last = Raise(@, checked.err, checked.field, NoId)]
        ELSE r

\* save when a document whose record is missing is inserted again
save_result_reinsert(me, st, nid, sch, storeOk, c) ==
    LET checked == validate(schema_of(me.cls, sch).rules, me.fields)
    IN  IF collection(me.cls) = "None"
        THEN [inst |-> me, store |-> st, nextId |-> nid,
              last |-> Raise(c, "collection_error", "", NoId)]
        ELSE IF schema_of(me.cls, sch).declared /\ checked.err # "ok"
        THEN [inst |-> me, store |-> st, nextId |-> nid,
              last |-> Raise(c, checked.err, checked.field, NoId)]
        ELSE IF ~me.hasId
        THEN [inst |-> me, store |-> st, nextId |-> nid,
              last |-> Raise(c, "attribute_error", "_id", NoId)]
        ELSE IF me.id = NoId \/ (me.id \notin DOMAIN st /\ nid <= MaxId)
        THEN insert_path(me, st, nid, storeOk, c)
        ELSE update_path(me, st, nid, storeOk, c)

save_result(me, st, nid, sch, storeOk, c) ==
    LET checked == validate(schema_of(me.cls, sch).rules, me.fields)
    IN  IF collection(me.cls) = "None"
        THEN [inst |-> me, store |-> st, nextId |-> nid,
              last |-> Raise(c, "collection_error", "", NoId)]
        ELSE IF schema_of(me.cls, sch).declared /\ checked.err # "ok"
        THEN [inst |-> me, store |-> st, nextId |-> nid,
              last |-> Raise(c, checked.err, checked.field, NoId)]
        ELSE IF ~me.hasId
        THEN [inst |-> me, store |-> st, nextId |-> nid,
              last |-> Raise(c, "attribute_error", "_id", NoId)]
        ELSE IF me.id = NoId
        THEN insert_path(me, st, nid, storeOk, c)
        ELSE update_path(me, st, nid, storeOk, c)

\* Document.is_saved: not bool(self._has_changed())
is_saved_result(me, st, c) ==
    IF DOMAIN me.fields = {} THEN [c EXCEPT !.ret = TRUE]
    ELSE IF collection(me.cls) = "None"
    THEN Raise(c, "attribute_error", "find_one", NoId)
    ELSE IF ~me.hasId THEN Raise(c, "attribute_error", "_id", NoId)
    ELSE [c EXCEPT !.changed = DOMAIN has_changed(me.fields, me.id, st),
                   !.ret = (DOMAIN has_changed(me.fields, me.id, st) = {})]

\* Document.__init__ on the dict doc whose _id is id (NoId when the dict has
\* no _id, or when it is called without a dict)
Document_init(cls, doc, id) ==
    [state |-> "live", cls |-> cls, hasId |-> TRUE, id |-> id,
     fields |-> doc, dirty |-> {}]

\* The filter find() builds when the value of a single keyword that is a dict
\* is not unwrapped
FilterOf_kwargs(kwargs) == kwargs

\* The filter find() builds from its keyword arguments: the value of a single
\* keyword that is a dict, or else the keywords themselves
FilterOf(kwargs) ==
    IF Cardinality(DOMAIN kwargs) = 1
       /\ IsDict(kwargs[CHOOSE k \in DOMAIN kwargs : TRUE])
    THEN LET v == kwargs[CHOOSE k \in DOMAIN kwargs : TRUE] IN (v[2] :> v[3])
    ELSE kwargs

\* The ids of S in ascending order: the store returns the records in the
\* order they were inserted
RECURSIVE Ascending(_)
Ascending(S) ==
    IF S = {} THEN <<>>
    ELSE LET m == CHOOSE x \in S : \A y \in S : x <= y
         IN  <<m>> \o Ascending(S \ {m})

\* Document.find(**kwargs): the ids of the documents of the ResultList
find_result(st, kwargs) == Ascending(StoreFind(st, FilterOf(kwargs)))

\* Document.find_in(field, values): collection.find({field: {"$in": values}})
find_in_result(st, field, values) ==
    Ascending({id \in DOMAIN st :
                 field \in DOMAIN st[id] /\ st[id][field] \in values})

\* Document.delete(**kwargs): the store afterwards.  The filter d is built
\* as in find, and delete_many is called with kwargs.
delete_result(st, kwargs) == StoreDeleteMany(st, kwargs)

(***************************************************************************)
(* Actions: one per call the program makes.                                *)
(***************************************************************************)

\* One more call, within the bound on the length of a run
Counted == calls < MaxCalls /\ calls' = calls + 1

\* i = cls(doc), a new instance from a dict without _id
new(i, cls, doc) ==
    /\ Counted
    /\ UNCHANGED <<connection, proc>>
    /\ ~Live(i)
    /\ inst' = [inst EXCEPT ![i] = Document_init(cls, doc, NoId)]
    /\ last' = Call("new", i)
    /\ UNCHANGED <<store, nextId, schema>>

\* i = User.get_by_id(id): cls(find_one({'_id': bson.ObjectId(id)})), or None
\* when ObjectId raises InvalidId; find_one returns None when no record has
\* the id, and cls(None) is a document without fields
get_by_id(i, id) ==
    /\ Counted
    /\ UNCHANGED <<connection, proc>>
    /\ ~Live(i)
    /\ inst' = [inst EXCEPT ![i] =
                  IF id = Malformed THEN @
                  ELSE IF id \in DOMAIN store
                  THEN Document_init("User", store[id], id)
                  ELSE Document_init("User", EmptyDoc, NoId)]
    /\ last' = [Call("get_by_id", i) EXCEPT !.id = id, !.ret = (id # Malformed)]
    /\ UNCHANGED <<store, nextId, schema>>

\* i.f = v
setattr(i, f, v) ==
    /\ Counted
    /\ UNCHANGED <<connection, proc>>
    /\ Live(i)
    /\ inst' = [inst EXCEPT ![i].fields = DictSet(@, f, v),
                            ![i].dirty = @ \cup {f}]
    /\ last' = Call("setattr", i)
    /\ UNCHANGED <<store, nextId, schema>>

\* i.save()
save(i, storeOk) ==
    /\ Counted
    /\ UNCHANGED <<connection, proc>>
    /\ Live(i)
    /\ inst[i].hasId /\ inst[i].id = NoId => nextId <= MaxId
    /\ LET r == save_result(inst[i], store, nextId, schema, storeOk, Call("save", i))
       IN  /\ inst' = [inst EXCEPT ![i] = r.inst]
           /\ store' = r.store
           /\ nextId' = r.nextId
           /\ last' = r.last
    /\ UNCHANGED schema

\* i.is_saved()
is_saved(i) ==
    /\ Counted
    /\ UNCHANGED <<connection, proc>>
    /\ Live(i)
    /\ last' = is_saved_result(inst[i], store, Call("is_saved", i))
    /\ UNCHANGED <<store, nextId, schema, inst>>

\* i.delete_field(f)
delete_field(i, f) ==
    /\ Counted
    /\ UNCHANGED <<connection, proc>>
    /\ Live(i)
    /\ IF collection(inst[i].cls) = "None"
       THEN /\ last' = Raise(Call("delete_field", i), "attribute_error", "update_one", NoId)
            /\ UNCHANGED store
       ELSE IF ~inst[i].hasId
       THEN /\ last' = Raise(Call("delete_field", i), "attribute_error", "_id", NoId)
            /\ UNCHANGED store
       ELSE /\ store' = StoreUnset(store, inst[i].id, f)
            /\ last' = [Call("delete_field", i) EXCEPT !.upd = 1, !.field = f]
    /\ UNCHANGED <<nextId, schema, inst>>

\* User.find(**kwargs)
find(kwargs) ==
    /\ Counted
    /\ UNCHANGED <<connection, proc>>
    /\ last' = [Call("find", 0) EXCEPT !.kwargs = kwargs,
                                      !.found = find_result(store, kwargs)]
    /\ UNCHANGED <<store, nextId, schema, inst>>

\* User.find_in(field, values)
find_in(field, values) ==
    /\ Counted
    /\ UNCHANGED <<connection, proc>>
    /\ last' = [Call("find_in", 0) EXCEPT !.field = field, !.values = values,
                     !.found = find_in_result(store, field, values)]
    /\ UNCHANGED <<store, nextId, schema, inst>>

\* User.delete(**kwargs)
delete(kwargs) ==
    /\ Counted
    /\ UNCHANGED <<connection, proc>>
    /\ store' = delete_result(store, kwargs)
    /\ last' = [Call("delete", 0) EXCEPT !.kwargs = kwargs]
    /\ UNCHANGED <<nextId, schema, inst>>

(***************************************************************************)
(* Spec: the program with a collection class User declared without a       *)
(* schema, and a store that carries out every operation.                   *)
(***************************************************************************)
Fields == {"f", "g"}

Classes == {"User", "Document"}

\* The dicts instances are constructed from
NewDocs == {EmptyDoc, [k \in Fields |-> StrA]}

AssignValues == {StrA, StrB}

DeleteCriteria == {EmptyDoc, [k \in {"f"} |-> StrA]}

\* A program that has connected to the database "test" and declared User
Connected ==
    /\ db = "test"
    /\ instances = ("User" :> [collection |-> "users", schema |-> "none"])
    /\ env = [connection_string |-> FALSE, name |-> FALSE]
    /\ trial = NoTrial
    /\ proc = [i \in Insts |-> Idle]

Init ==
    /\ Connected
    /\ store = EmptyDoc
    /\ nextId = 1
    /\ schema = NoSchema
    /\ inst = [i \in Insts |-> FreeInst]
    /\ last = NoCall
    /\ calls = 0

Next ==
    \/ \E i \in Insts, cls \in Classes, doc \in NewDocs : new(i, cls, doc)
    \/ \E i \in Insts, id \in Ids : get_by_id(i, id)
    \/ \E i \in Insts, f \in Fields, v \in AssignValues : setattr(i, f, v)
    \/ \E i \in Insts : save(i, TRUE)
    \/ \E i \in Insts : is_saved(i)
    \/ \E i \in Insts, f \in Fields : delete_field(i, f)
    \/ \E kwargs \in DeleteCriteria : delete(kwargs)

Spec == Init /\ [][Next]_vars

(***************************************************************************)
(* SpecF: the same program with a store whose operations may fail.         *)
(***************************************************************************)
NextF ==
    \/ \E i \in Insts, cls \in Classes, doc \in NewDocs : new(i, cls, doc)
    \/ \E i \in Insts, id \in Ids : get_by_id(i, id)
    \/ \E i \in Insts, f \in Fields, v \in AssignValues : setattr(i, f, v)
    \/ \E i \in Insts, storeOk \in BOOLEAN : save(i, storeOk)
    \/ \E i \in Insts : is_saved(i)
    \/ \E i \in Insts, f \in Fields : delete_field(i, f)
    \/ \E kwargs \in DeleteCriteria : delete(kwargs)

SpecF == Init /\ [][NextF]_vars

(***************************************************************************)
(* SpecV: the program with User declared with a schema, or without one.    *)
(***************************************************************************)
Rule(name, type, required, hasValidator, accepts) ==
    [name |-> name, type |-> type, required |-> required,
     hasValidator |-> hasValidator, accepts |-> accepts]

SchemaValues == {None, StrA, Int1}

\* {'f': {'type': str, 'required': True}, 'g': {'type': int}}
SchemaPlain ==
    <<Rule("f", "str", TRUE, FALSE, {}), Rule("g", "int", FALSE, FALSE, {})>>

\* {'f': {'type': str, 'required': True, 'validator': lambda v: v == 'a'}}
SchemaStrict == <<Rule("f", "str", TRUE, TRUE, {StrA})>>

\* {'g': {'type': int, 'required': True, 'validator': lambda v: True},
\*  'f': {'type': str, 'required': True}}
SchemaLenient ==
    <<Rule("g", "int", TRUE, TRUE, SchemaValues), Rule("f", "str", TRUE, FALSE, {})>>

Schemas == {SchemaPlain, SchemaStrict, SchemaLenient}

InitV ==
    /\ Connected
    /\ store = EmptyDoc
    /\ nextId = 1
    /\ schema \in {NoSchema} \cup {[declared |-> TRUE, rules |-> r] : r \in Schemas}
    /\ inst = [i \in Insts |-> FreeInst]
    /\ last = NoCall
    /\ calls = 0

NextV ==
    \/ \E i \in Insts, doc \in NewDocs : new(i, "User", doc)
    \/ \E i \in Insts, id \in Ids : get_by_id(i, id)
    \/ \E i \in Insts, f \in Fields, v \in SchemaValues : setattr(i, f, v)
    \/ \E i \in Insts : save(i, TRUE)
    \/ \E i \in Insts, f \in Fields : delete_field(i, f)

SpecV == InitV /\ [][NextV]_vars

(***************************************************************************)
(* SpecQ: find and delete on a collection holding any records.             *)
(***************************************************************************)
QueryValues == {StrA, StrB, DictFA}

\* The dicts with keys among Fields and values among V
DictsOver(V) == UNION {[S -> V] : S \in SUBSET Fields}

QueryCriteria == {d \in DictsOver(QueryValues) : Cardinality(DOMAIN d) <= 1}
                 \cup {[k \in Fields |-> StrA]}

InitQ ==
    /\ Connected
    /\ store \in UNION {[S -> DictsOver(QueryValues)] : S \in SUBSET Ids}
    /\ nextId = MaxId + 1
    /\ schema = NoSchema
    /\ inst = [i \in Insts |-> FreeInst]
    /\ last = NoCall
    /\ calls = 0

NextQ ==
    \/ \E kwargs \in QueryCriteria : find(kwargs)
    \/ \E kwargs \in QueryCriteria : delete(kwargs)

SpecQ == InitQ /\ [][NextQ]_vars

(***************************************************************************)
(* SpecS: a collection written only through save() of the schema-declared  *)
(* class User: construction, fetch, assignment, save and collection-level  *)
(* delete, without delete_field.                                           *)
(***************************************************************************)
InitS ==
    /\ Connected
    /\ store = EmptyDoc
    /\ nextId = 1
    /\ schema \in {[declared |-> TRUE, rules |-> r] : r \in Schemas}
    /\ inst = [i \in Insts |-> FreeInst]
    /\ last = NoCall
    /\ calls = 0

NextS ==
    \/ \E i \in Insts, doc \in NewDocs : new(i, "User", doc)
    \/ \E i \in Insts, id \in Ids : get_by_id(i, id)
    \/ \E i \in Insts, f \in Fields, v \in SchemaValues : setattr(i, f, v)
    \/ \E i \in Insts : save(i, TRUE)
    \/ \E kwargs \in DeleteCriteria : delete(kwargs)

SpecS == InitS /\ [][NextS]_vars

(***************************************************************************)
(* SpecC: two instances holding the identity of one stored record save     *)
(* concurrently.  A save() on the update path is a find_one per field of   *)
(* the instance (the loop of _has_changed) followed by one update_one; the *)
(* steps of the two calls interleave.  proc[i].keys are the fields of      *)
(* instance i still to be read, proc[i].changed_fields the dict built so   *)
(* far, proc[i].wrote the fields its last update_one set.                  *)
(***************************************************************************)
SharedId == 1

\* The two instances that hold the identity of the record
Savers == {1, 2}

SharedRecord == [k \in Fields |-> StrA]

HeldValues == {StrA, StrB, Int1}

\* The body of the loop of _has_changed for one key: the record is read and
\* the key is added when the record holds it with another value
read_key(changed_fields, fields, key, id, st) ==
    IF id \in DOMAIN st /\ key \in DOMAIN st[id] /\ st[id][key] # fields[key]
    THEN DictSet(changed_fields, key, fields[key])
    ELSE changed_fields

\* The end of save() when the update sets every field of the instance
partial_update_all_fields(me, changed_fields, st, c) ==
    IF DOMAIN changed_fields = {}
    THEN [store |-> st, last |-> c, wrote |-> {}]
    ELSE [store |-> StoreSet(st, me.id, me.fields),
          last |-> [c EXCEPT !.upd = 1, !.changed = DOMAIN changed_fields],
          wrote |-> DOMAIN me.fields]

\* The end of save(): nothing when changed_fields is empty, else update_one
\* with $set of changed_fields, and ValueError when it matched no record
partial_update(me, changed_fields, st, c) ==
    IF DOMAIN changed_fields = {}
    THEN [store |-> st, last |-> c, wrote |-> {}]
    ELSE IF MatchedCount(st, me.id) = 0
    THEN [store |-> st,
          last |-> Raise([c EXCEPT !.upd = 1, !.changed = DOMAIN changed_fields],
                         "missing_document", "", me.id),
          wrote |-> {}]
    ELSE [store |-> StoreSet(st, me.id, changed_fields),
          last |-> [c EXCEPT !.upd = 1, !.changed = DOMAIN changed_fields],
          wrote |-> DOMAIN changed_fields]

\* i.save() is called and reaches _has_changed()
save_begin(i) ==
    /\ Counted
    /\ proc[i].pc = "idle"
    /\ Live(i)
    /\ collection(inst[i].cls) # "None"
    /\ schema_of(inst[i].cls, schema).declared =>
           validate(schema_of(inst[i].cls, schema).rules, inst[i].fields).err = "ok"
    /\ inst[i].hasId /\ inst[i].id # NoId
    /\ proc' = [proc EXCEPT ![i] = [pc |-> "reading", keys |-> DOMAIN inst[i].fields,
                                    changed_fields |-> EmptyDoc, wrote |-> {}]]
    /\ UNCHANGED <<connection, store, nextId, schema, inst, last>>

\* One iteration of the loop of _has_changed in the save() of instance i
save_read(i, key) ==
    /\ proc[i].pc = "reading"
    /\ key \in proc[i].keys
    /\ proc' = [proc EXCEPT ![i].keys = @ \ {key},
                            ![i].changed_fields =
                                read_key(@, inst[i].fields, key, inst[i].id, store)]
    /\ UNCHANGED <<connection, store, nextId, schema, inst, last, calls>>

\* The save() of instance i issues its update and returns
save_finish(i) ==
    /\ proc[i].pc = "reading"
    /\ proc[i].keys = {}
    /\ LET r == partial_update(inst[i], proc[i].changed_fields, store, Call("save", i))
       IN  /\ store' = r.store
           /\ last' = r.last
           /\ proc' = [proc EXCEPT ![i] = [Idle EXCEPT !.wrote = r.wrote]]
    /\ UNCHANGED <<connection, nextId, schema, inst, calls>>

\* Both instances were fetched by the identity of the record and assigned
InitC ==
    /\ Connected
    /\ store = [id \in {SharedId} |-> SharedRecord]
    /\ nextId = SharedId + 1
    /\ schema = NoSchema
    /\ \E held \in [Savers -> [Fields -> HeldValues]] :
           inst = [i \in Insts |->
                     IF i \in Savers
                     THEN [FreeInst EXCEPT
                              !.state = "live", !.id = SharedId, !.fields = held[i],
                              !.dirty = {k \in Fields : held[i][k] # SharedRecord[k]}]
                     ELSE FreeInst]
    /\ last = NoCall
    /\ calls = 0

NextC ==
    \/ \E i \in Insts : save_begin(i)
    \/ \E i \in Insts, key \in Fields : save_read(i, key)
    \/ \E i \in Insts : save_finish(i)

SpecC == InitC /\ [][NextC]_vars

(***************************************************************************)
(* init_db and create_collection_class.                                    *)
(***************************************************************************)

\* retry_delay ** i
RECURSIVE Pow(_, _)
Pow(b, n) == IF n = 0 THEN 1 ELSE b * Pow(b, n - 1)

\* The loop of init_db when the delay grows linearly
RECURSIVE init_db_loop_linear(_, _, _, _, _)
init_db_loop_linear(retries, retry_delay, reach, i, slept) ==
    IF i >= retries
    THEN [err |-> "unbound_local_error", cause |-> 0, attempts |-> i, slept |-> slept]
    ELSE IF reach[i + 1]
    THEN [err |-> "ok", cause |-> 0, attempts |-> i + 1, slept |-> slept]
    ELSE IF i = retries - 1
    THEN [err |-> "connection_error", cause |-> i + 1, attempts |-> i + 1,
          slept |-> slept]
    ELSE init_db_loop_linear(retries, retry_delay, reach, i + 1,
                             Append(slept, retry_delay * (i + 1)))

\* The loop of init_db from iteration i on, where reach[k] tells whether the
\* server is reachable at the k-th attempt and slept lists the delays slept so
\* far.  The result is the error raised (when range(retries) is empty the loop
\* ends without break and client is unbound), the attempt whose
\* ServerSelectionTimeoutError is the cause, the attempts made, the delays.
RECURSIVE init_db_loop(_, _, _, _, _)
init_db_loop(retries, retry_delay, reach, i, slept) ==
    IF i >= retries
    THEN [err |-> "unbound_local_error", cause |-> 0, attempts |-> i, slept |-> slept]
    ELSE IF reach[i + 1]
    THEN [err |-> "ok", cause |-> 0, attempts |-> i + 1, slept |-> slept]
    ELSE IF i = retries - 1
    THEN [err |-> "connection_error", cause |-> i + 1, attempts |-> i + 1,
          slept |-> slept]
    ELSE init_db_loop(retries, retry_delay, reach, i + 1,
                      Append(slept, Pow(retry_delay, i)))

\* The defaults of init_db
DefaultRetries == 3
DefaultRetryDelay == 2

\* The database MONGO_DB_NAME names
EnvDatabase == "envdb"

\* The class create_collection_class builds
CollectionClass(class_name, collection_name, sch) ==
    [collection |-> IF collection_name = "None" THEN class_name ELSE collection_name,
     schema |-> sch]

\* The call record of create_collection_class
Declaration(class_name, reach) ==
    [NoTrial EXCEPT !.op = "create_collection_class", !.name = class_name,
                    !.reach = reach]

\* create_collection_class when an earlier registration of the name is kept
create_collection_class_keep_first(dbv, registry, envv, class_name, collection_name, sch, reach) ==
    LET made == CollectionClass(class_name, collection_name, sch)
        t == Declaration(class_name, reach)
    IN  IF dbv = "None"
        THEN [db |-> dbv, instances |-> registry,
              trial |-> [t EXCEPT !.err = "connection_configuration_error"]]
        ELSE [db |-> dbv,
              instances |-> IF class_name \in DOMAIN registry THEN registry
                            ELSE DictSet(registry, class_name, made),
              trial |-> [t EXCEPT !.returned = made]]

\* create_collection_class under mongo_check_and_connect: the handle, the
\* registry and the call record afterwards
create_collection_class_result(dbv, registry, envv, class_name, collection_name, sch, reach) ==
    LET made == CollectionClass(class_name, collection_name, sch)
        t == Declaration(class_name, reach)
        r == init_db_loop(DefaultRetries, DefaultRetryDelay, reach, 0, <<>>)
        connected == [t EXCEPT !.attempts = r.attempts, !.slept = r.slept,
                               !.cause = r.cause, !.database = EnvDatabase,
                               !.retries = DefaultRetries,
                               !.retry_delay = DefaultRetryDelay]
    IN  IF dbv = "None" /\ ~(envv.connection_string /\ envv.name)
        THEN [db |-> dbv, instances |-> registry,
              trial |-> [t EXCEPT !.err = "connection_configuration_error"]]
        ELSE IF dbv = "None" /\ r.err # "ok"
        THEN [db |-> dbv, instances |-> registry,
              trial |-> [connected EXCEPT !.err = r.err]]
        ELSE [db |-> IF dbv = "None" THEN EnvDatabase ELSE dbv,
              instances |-> DictSet(registry, class_name, made),
              trial |-> [(IF dbv = "None" THEN connected ELSE t)
                            EXCEPT !.returned = made]]

\* init_db(connection_str, database, retries, retry_delay)
init_db(database, retries, retry_delay, reach) ==
    /\ Counted
    /\ LET r == init_db_loop(retries, retry_delay, reach, 0, <<>>)
       IN  /\ db' = IF r.err = "ok" THEN database ELSE db
           /\ trial' = [NoTrial EXCEPT !.op = "init_db", !.err = r.err,
                            !.cause = r.cause, !.retries = retries,
                            !.retry_delay = retry_delay, !.reach = reach,
                            !.attempts = r.attempts, !.slept = r.slept,
                            !.database = database]
    /\ UNCHANGED <<instances, env, store, nextId, schema, inst, last, proc>>

\* create_collection_class(class_name, collection_name, schema)
create_collection_class(class_name, collection_name, sch, reach) ==
    /\ Counted
    /\ LET r == create_collection_class_result(db, instances, env, class_name,
                                               collection_name, sch, reach)
       IN  /\ db' = r.db
           /\ instances' = r.instances
           /\ trial' = r.trial
    /\ UNCHANGED <<env, store, nextId, schema, inst, last, proc>>

(***************************************************************************)
(* SpecD: a program that connects and declares collection classes, with a  *)
(* server that is reachable or not at each attempt.                        *)
(***************************************************************************)
ClassNames == {"User", "Post"}

CollectionNames == {"None", "users"}

SchemaArgs == {"none", "schema"}

Databases == {"test"}

\* The outcomes of the attempts a budget allows: reachable or not
ReachPatterns(retries) == [1 .. retries -> BOOLEAN]

InitD ==
    /\ db \in {"None", "test"}
    /\ instances = EmptyDoc
    /\ env \in [connection_string : BOOLEAN, name : BOOLEAN]
    /\ trial = NoTrial
    /\ proc = [i \in Insts |-> Idle]
    /\ store = EmptyDoc
    /\ nextId = 1
    /\ schema = NoSchema
    /\ inst = [i \in Insts |-> FreeInst]
    /\ last = NoCall
    /\ calls = 0

NextD ==
    \/ \E database \in Databases, retries \in 0 .. MaxRetries,
          retry_delay \in 1 .. MaxRetryDelay :
           \E reach \in ReachPatterns(retries) :
               init_db(database, retries, retry_delay, reach)
    \/ \E class_name \in ClassNames, collection_name \in CollectionNames,
          sch \in SchemaArgs, reach \in ReachPatterns(DefaultRetries) :
           create_collection_class(class_name, collection_name, sch, reach)

SpecD == InitD /\ [][NextD]_vars

(***************************************************************************)
(* SpecR: find and find_in on a collection holding any records.            *)
(***************************************************************************)
NextR ==
    \/ \E kwargs \in QueryCriteria : find(kwargs)
    \/ \E field \in Fields, values \in SUBSET QueryValues : find_in(field, values)

SpecR == InitQ /\ [][NextR]_vars

(***************************************************************************)
(* SpecG: get_by_id on a collection holding any records, of which some are *)
(* deleted.                                                                *)
(***************************************************************************)
NextG ==
    \/ \E i \in Insts, id \in Ids \cup {Malformed} : get_by_id(i, id)
    \/ \E kwargs \in DeleteCriteria : delete(kwargs)

SpecG == InitQ /\ [][NextG]_vars

(***************************************************************************)
(* Properties.                                                             *)
(***************************************************************************)

\* The step is a call of save on instance i
SaveStep(i) == calls' # calls /\ last'.op = "save" /\ last'.inst = i

\* The step is a call of is_saved on instance i
IsSavedStep(i) == calls' # calls /\ last'.op = "is_saved" /\ last'.inst = i

\* Instance i is of a class with a collection, and has an identity
Persisted(i) ==
    /\ Live(i)
    /\ collection(inst[i].cls) # "None"
    /\ inst[i].hasId
    /\ inst[i].id # NoId

\* Instance i has no identity yet
Unpersisted(i) ==
    /\ Live(i)
    /\ collection(inst[i].cls) # "None"
    /\ inst[i].hasId
    /\ inst[i].id = NoId

\* Instance i passes validation, or its class has no schema
PassesValidation(i) ==
    schema_of(inst[i].cls, schema).declared =>
        validate(schema_of(inst[i].cls, schema).rules, inst[i].fields).err = "ok"

\* Every record of the store before the step is unchanged by it
OldRecordsKept == \A id \in DOMAIN store : id \in DOMAIN store' /\ store'[id] = store[id]

\* C1: save() on an instance whose _id is None, of a class with a collection
\* and passing validation, inserts exactly one record, holding the fields of
\* the instance, gives the instance the identity the store generated, and
\* is_saved() is true right afterwards.
C1_SaveInserts ==
    [][\A i \in Insts :
        (SaveStep(i) /\ Unpersisted(i) /\ PassesValidation(i)) =>
            /\ last'.err = "ok"
            /\ last'.ins = 1
            /\ last'.upd = 0
            /\ inst'[i].hasId
            /\ inst'[i].id # NoId
            /\ inst'[i].id \notin DOMAIN store
            /\ DOMAIN store' = DOMAIN store \cup {inst'[i].id}
            /\ store'[inst'[i].id] = inst[i].fields
            /\ OldRecordsKept
            /\ is_saved_result(inst'[i], store', Call("is_saved", i)).err = "ok"
            /\ is_saved_result(inst'[i], store', Call("is_saved", i)).ret]_vars

\* A save under a schema has just inserted a record with two fields, beside
\* an older record
C1_Witness ==
    /\ last.op = "save"
    /\ last.ins = 1
    /\ schema.declared
    /\ inst[last.inst].id \in DOMAIN store
    /\ DOMAIN store[inst[last.inst].id] = Fields
    /\ Cardinality(DOMAIN store) = 2

\* The record of instance i is in the store
RecordPresent(i) == inst[i].id \in DOMAIN store

\* Field g of instance i is stored with the value the instance holds, or is
\* not stored at all
FieldInSync(i, g) ==
    g \in DOMAIN store[inst[i].id] => store[inst[i].id][g] = inst[i].fields[g]

\* The step changes, in the record of instance i, field f to the value the
\* instance holds and nothing else, and no other record
OnlyFieldWritten(i, f) ==
    /\ DOMAIN store' = DOMAIN store
    /\ DOMAIN store'[inst[i].id] = DOMAIN store[inst[i].id]
    /\ store'[inst[i].id][f] = inst[i].fields[f]
    /\ \A g \in DOMAIN store[inst[i].id] \ {f} :
           store'[inst[i].id][g] = store[inst[i].id][g]
    /\ \A id \in DOMAIN store \ {inst[i].id} : store'[id] = store[id]

\* C2 as claimed: save() of a persisted instance whose record is present,
\* after the assignment of one field the record holds, changes only that
\* field of that record.
C2_Original ==
    [][\A i \in Insts, f \in Fields :
        (/\ SaveStep(i) /\ Persisted(i) /\ RecordPresent(i)
         /\ inst[i].dirty = {f}
         /\ f \in DOMAIN store[inst[i].id]) =>
            OnlyFieldWritten(i, f)]_vars

\* C2 as amended: the same, for an instance whose other fields are each stored
\* with the value the instance holds or not stored at all.
C2_Amended ==
    [][\A i \in Insts, f \in Fields :
        (/\ SaveStep(i) /\ Persisted(i) /\ RecordPresent(i)
         /\ inst[i].dirty = {f}
         /\ f \in DOMAIN store[inst[i].id]
         /\ \A g \in DOMAIN inst[i].fields \ {f} : FieldInSync(i, g)) =>
            /\ last'.err = "ok"
            /\ OnlyFieldWritten(i, f)]_vars

\* A save has just written field f alone, to a record that holds g as well,
\* in a store with another record
C2_Witness ==
    /\ last.op = "save"
    /\ last.upd = 1
    /\ last.changed = {"f"}
    /\ Persisted(last.inst) /\ RecordPresent(last.inst)
    /\ store[inst[last.inst].id] = [k \in Fields |-> IF k = "f" THEN StrB ELSE StrA]
    /\ Cardinality(DOMAIN store) = 2

\* The step issues no insert and no update, raises nothing and leaves the
\* store as it is
NoStoreMutation ==
    /\ last'.err = "ok"
    /\ last'.ins = 0
    /\ last'.upd = 0
    /\ store' = store

\* C3 as claimed: save() of a persisted instance none of whose fields was
\* assigned since it was fetched or saved issues no insert and no update,
\* does not raise and leaves the store unchanged, whatever other instances did.
C3_Original ==
    [][\A i \in Insts :
        (SaveStep(i) /\ Persisted(i) /\ inst[i].dirty = {}) => NoStoreMutation]_vars

\* C3 as amended: save() of a persisted instance each of whose fields is stored
\* with the value the instance holds, or is not stored, or whose record is
\* gone, issues no insert and no update, does not raise and leaves the store
\* unchanged; and so does a save() that directly follows a successful save()
\* of the same instance.
C3_Amended ==
    [][\A i \in Insts :
        /\ (/\ SaveStep(i) /\ Persisted(i)
            /\ RecordPresent(i) => \A g \in DOMAIN inst[i].fields : FieldInSync(i, g))
           => NoStoreMutation
        /\ (/\ SaveStep(i) /\ Persisted(i)
            /\ last.op = "save" /\ last.inst = i /\ last.err = "ok")
           => NoStoreMutation]_vars

\* A save of an instance with two fields, equal to its record, has just
\* returned without a store operation, directly after a save of that instance
C3_Witness ==
    /\ last.op = "save"
    /\ last.err = "ok" /\ last.ins = 0 /\ last.upd = 0
    /\ Persisted(last.inst) /\ RecordPresent(last.inst)
    /\ DOMAIN inst[last.inst].fields = Fields
    /\ store[inst[last.inst].id] = inst[last.inst].fields
    /\ store[inst[last.inst].id]["f"] = StrB
    /\ calls >= 5

\* C4 as claimed: for a persisted instance whose record is present,
\* _has_changed returns the fields whose value differs from the stored one
\* or that the record does not hold.
C4_Original ==
    \A i \in Insts :
        (Persisted(i) /\ RecordPresent(i)) =>
            DOMAIN has_changed(inst[i].fields, inst[i].id, store) =
                {k \in DOMAIN inst[i].fields :
                    \/ k \notin DOMAIN store[inst[i].id]
                    \/ store[inst[i].id][k] # inst[i].fields[k]}

\* C5 as claimed: save() of an instance with an identity and a field, whose
\* record is not in the store, raises the missing-document error naming the
\* identity and does not recreate the record.
C5_Original ==
    [][\A i \in Insts :
        (/\ SaveStep(i) /\ Persisted(i) /\ ~RecordPresent(i)
         /\ DOMAIN inst[i].fields # {}) =>
            /\ last'.err = "missing_document"
            /\ last'.id = inst[i].id
            /\ store' = store]_vars

\* The errors _validate raises
FieldErrors == {"invalid", "missing_required", "type_mismatch", "unknown_field"}

\* C6: when save() raises a validation error, no store operation of the call
\* has been issued: the store, the instance's fields and its identity are as
\* before, on the insert path and on the update path.
C6_ValidationBeforeStore ==
    [][\A i \in Insts :
        (SaveStep(i) /\ last'.err \in FieldErrors) =>
            /\ store' = store
            /\ nextId' = nextId
            /\ inst' = inst
            /\ last'.ins = 0
            /\ last'.upd = 0]_vars

\* A save of a persisted instance holding a value its record does not hold
\* has just raised a validation error
C6_Witness ==
    /\ last.op = "save"
    /\ last.err \in FieldErrors
    /\ Persisted(last.inst) /\ RecordPresent(last.inst)
    /\ \E k \in DOMAIN inst[last.inst].fields :
           /\ k \in DOMAIN store[inst[last.inst].id]
           /\ store[inst[last.inst].id][k] # inst[last.inst].fields[k]

\* The schema of the class of instance i
RulesOf(i) == schema_of(inst[i].cls, schema).rules

\* The value d.get(name) the validator reads for the rule
ValueFor(i, rule) == DictGet(inst[i].fields, rule.name)

\* The defects of the field of a rule, in instance i
RequiredMissing(i, rule) == rule.required /\ ValueFor(i, rule) = None

WrongKind(i, rule) ==
    ValueFor(i, rule) # None /\ KindOf(ValueFor(i, rule)) # rule.type

Rejected(i, rule) == rule.hasValidator /\ ValueFor(i, rule) \notin rule.accepts

Undeclared(i) == DOMAIN inst[i].fields \ {RulesOf(i)[n].name : n \in 1 .. Len(RulesOf(i))}

\* C7 as claimed: under a schema, save() of an instance with a required field
\* missing or null raises the missing-required error, of one with an
\* undeclared field the unknown-field error, of one with a value of the wrong
\* kind the type-mismatch error, with or without a validator on the field.
C7_Original ==
    [][\A i \in Insts :
        (SaveStep(i) /\ Live(i) /\ schema_of(inst[i].cls, schema).declared) =>
            /\ (\E n \in 1 .. Len(RulesOf(i)) : RequiredMissing(i, RulesOf(i)[n]))
                   => last'.err = "missing_required"
            /\ Undeclared(i) # {} => last'.err = "unknown_field"
            /\ (\E n \in 1 .. Len(RulesOf(i)) : WrongKind(i, RulesOf(i)[n]))
                   => last'.err = "type_mismatch"]_vars

\* C7 as amended: the first failing check decides.  When every field declared
\* before a rule has no defect and the validator of the rule, if any, accepts
\* the value, a required field missing or null raises the missing-required
\* error and a non-null value of the wrong kind the type-mismatch error, each
\* naming the field; when no declared field has a defect, an undeclared field
\* raises the unknown-field error naming an undeclared field.
C7_Amended ==
    [][\A i \in Insts :
        (SaveStep(i) /\ Live(i) /\ schema_of(inst[i].cls, schema).declared) =>
            /\ \A n \in 1 .. Len(RulesOf(i)) :
                 (/\ \A m \in 1 .. n - 1 :
                        /\ ~Rejected(i, RulesOf(i)[m])
                        /\ ~RequiredMissing(i, RulesOf(i)[m])
                        /\ ~WrongKind(i, RulesOf(i)[m])
                  /\ ~Rejected(i, RulesOf(i)[n])) =>
                     /\ RequiredMissing(i, RulesOf(i)[n]) =>
                            /\ last'.err = "missing_required"
                            /\ last'.field = RulesOf(i)[n].name
                     /\ WrongKind(i, RulesOf(i)[n]) =>
                            /\ last'.err = "type_mismatch"
                            /\ last'.field = RulesOf(i)[n].name
            /\ (/\ \A m \in 1 .. Len(RulesOf(i)) :
                        /\ ~Rejected(i, RulesOf(i)[m])
                        /\ ~RequiredMissing(i, RulesOf(i)[m])
                        /\ ~WrongKind(i, RulesOf(i)[m])
                /\ Undeclared(i) # {}) =>
                   /\ last'.err = "unknown_field"
                   /\ last'.field \in Undeclared(i)]_vars

\* A save has just raised the missing-required error for a field that is set
\* to None and whose rule has a validator, in an instance that also holds the
\* other declared field with a valid value
C7_Witness ==
    /\ last.op = "save"
    /\ last.err = "missing_required"
    /\ last.field = "g"
    /\ schema.rules = SchemaLenient
    /\ DOMAIN inst[last.inst].fields = Fields
    /\ inst[last.inst].fields["g"] = None
    /\ inst[last.inst].fields["f"] = StrA

\* C8 as claimed: for an instance with a field and with no identity, or with
\* an identity that has no record, _has_changed returns every field and
\* is_saved() is false; is_saved() is true only when every field is stored
\* with the value held.
C8_Original ==
    [][\A i \in Insts :
        (/\ IsSavedStep(i) /\ Live(i)
         /\ collection(inst[i].cls) # "None" /\ inst[i].hasId) =>
            /\ (/\ DOMAIN inst[i].fields # {}
                /\ inst[i].id = NoId \/ ~RecordPresent(i)) =>
                   /\ last'.changed = DOMAIN inst[i].fields
                   /\ last'.ret = FALSE
            /\ (last'.ret /\ DOMAIN inst[i].fields # {}) =>
                   /\ RecordPresent(i)
                   /\ \A k \in DOMAIN inst[i].fields :
                          /\ k \in DOMAIN store[inst[i].id]
                          /\ store[inst[i].id][k] = inst[i].fields[k]]_vars

Found(st, kwargs) == {find_result(st, kwargs)[n] : n \in 1 .. Len(find_result(st, kwargs))}

\* C10 as claimed: delete(criteria) removes the records find(criteria)
\* returns and leaves the others.
C10_Original ==
    [][(calls' # calls /\ last'.op = "delete") =>
            /\ DOMAIN store' = DOMAIN store \ Found(store, last'.kwargs)
            /\ \A id \in DOMAIN store' : store'[id] = store[id]]_vars

\* The step is a call of find, of find_in
FindStep == calls' # calls /\ last'.op = "find"

FindInStep == calls' # calls /\ last'.op = "find_in"

\* found lists distinct ids in the order the store returns records
InRetrievalOrder(found) ==
    \A m, n \in 1 .. Len(found) : m < n => found[m] < found[n]

\* The record satisfies field = value for every entry of the dict d
EqualsAll(rec, d) == \A k \in DOMAIN d : k \in DOMAIN rec /\ rec[k] = d[k]

\* kwargs is a single keyword whose value is a map
SingleMap(kwargs) ==
    \E k \in DOMAIN kwargs : DOMAIN kwargs = {k} /\ kwargs[k][1] = "dict"

\* The entries of the map that is the value of the single keyword of kwargs
MapOf(kwargs) ==
    LET k == CHOOSE k \in DOMAIN kwargs : TRUE
    IN  [f \in {kwargs[k][2]} |-> kwargs[k][3]]

\* C11 as claimed: find(criteria) returns only records whose fields equal all
\* the keyword values, a single map-valued keyword included, in the order of
\* the store; find_in returns exactly the records whose field is among values.
C11_Original ==
    [][/\ FindStep =>
            /\ \A n \in 1 .. Len(last'.found) :
                   /\ last'.found[n] \in DOMAIN store
                   /\ EqualsAll(store[last'.found[n]], last'.kwargs)
            /\ InRetrievalOrder(last'.found)
       /\ FindInStep =>
            /\ {last'.found[n] : n \in 1 .. Len(last'.found)} =
                   {id \in DOMAIN store :
                        /\ last'.field \in DOMAIN store[id]
                        /\ store[id][last'.field] \in last'.values}
            /\ InRetrievalOrder(last'.found)]_vars

\* C11 as amended: the same, except that for a single keyword whose value is
\* a map the records returned are those whose fields equal the entries of
\* the map.
C11_Amended ==
    [][/\ FindStep =>
            /\ \A n \in 1 .. Len(last'.found) :
                   /\ last'.found[n] \in DOMAIN store
                   /\ IF SingleMap(last'.kwargs)
                      THEN EqualsAll(store[last'.found[n]], MapOf(last'.kwargs))
                      ELSE EqualsAll(store[last'.found[n]], last'.kwargs)
            /\ SingleMap(last'.kwargs) =>
                   \A id \in DOMAIN store :
                       EqualsAll(store[id], MapOf(last'.kwargs)) =>
                           \E n \in 1 .. Len(last'.found) : last'.found[n] = id
            /\ InRetrievalOrder(last'.found)
       /\ FindInStep =>
            /\ {last'.found[n] : n \in 1 .. Len(last'.found)} =
                   {id \in DOMAIN store :
                        /\ last'.field \in DOMAIN store[id]
                        /\ store[id][last'.field] \in last'.values}
            /\ InRetrievalOrder(last'.found)]_vars

\* find with a single map-valued keyword has just returned two records, one
\* of which holds the map itself in the field of the keyword's name
C11_Witness ==
    /\ last.op = "find"
    /\ last.kwargs = [k \in {"g"} |-> DictFA]
    /\ Len(last.found) = 2
    /\ \E id \in DOMAIN store : "g" \in DOMAIN store[id] /\ store[id]["g"] = DictFA

\* The step is a call of get_by_id that builds, or not, instance i
GetByIdStep(i) == calls' # calls /\ last'.op = "get_by_id" /\ last'.inst = i

\* C12 as claimed: get_by_id(id) returns a document with that identity and
\* the stored fields when a record has the id, and None otherwise, for a
\* malformed id and for a well-formed id without record.
C12_Original ==
    [][\A i \in Insts :
        GetByIdStep(i) =>
            IF last'.id # Malformed /\ last'.id \in DOMAIN store
            THEN /\ last'.ret
                 /\ inst'[i].state = "live"
                 /\ inst'[i].hasId
                 /\ inst'[i].id = last'.id
                 /\ inst'[i].fields = store[last'.id]
            ELSE /\ ~last'.ret
                 /\ inst'[i] = inst[i]]_vars

\* The step is a call of init_db
InitDbStep == calls' # calls /\ trial'.op = "init_db"

\* C13 as claimed: init_db ends in one of two ways: an attempt within the
\* budget succeeded and DataBase.db is the database selected, or every attempt
\* of the budget was unreachable and it raises the connection error with the
\* last failure as cause, DataBase.db unchanged; the handle changes only with
\* a successful attempt.
C13_Original ==
    [][InitDbStep =>
          /\ \/ /\ trial'.err = "ok"
                /\ trial'.attempts \in 1 .. trial'.retries
                /\ trial'.reach[trial'.attempts]
                /\ db' = trial'.database
             \/ /\ trial'.err = "connection_error"
                /\ \A k \in 1 .. trial'.retries : ~trial'.reach[k]
                /\ trial'.cause = trial'.retries
                /\ db' = db
          /\ db' # db => trial'.err = "ok"]_vars

DeclareStep == calls' # calls /\ trial'.op = "create_collection_class"

\* C15: create_collection_class without a connection connects with the two
\* configuration values when both are set, and then declares the class (or
\* raises the connection error of that connect); when one is unset it raises
\* the connection-configuration error, registry and handle unchanged.  A
\* successful declaration maps the name to the class returned, replacing an
\* earlier registration, and leaves the other entries alone.
C15_DeclareConnects ==
    [][DeclareStep =>
          /\ (db = "None" /\ env.connection_string /\ env.name) =>
                 /\ trial'.err \in {"ok", "connection_error"}
                 /\ trial'.attempts >= 1
                 /\ trial'.err = "ok" <=>
                        \E k \in 1 .. DefaultRetries : trial'.reach[k]
                 /\ trial'.err = "ok" => db' = EnvDatabase
                 /\ trial'.err # "ok" => db' = db /\ instances' = instances
          /\ (db = "None" /\ ~(env.connection_string /\ env.name)) =>
                 /\ trial'.err = "connection_configuration_error"
                 /\ instances' = instances
                 /\ db' = db
          /\ db # "None" => trial'.err = "ok" /\ db' = db
          /\ trial'.err = "ok" =>
                 /\ db' # "None"
                 /\ DOMAIN instances' = DOMAIN instances \cup {trial'.name}
                 /\ instances'[trial'.name] = trial'.returned
                 /\ \A n \in DOMAIN instances \ {trial'.name} :
                        instances'[n] = instances[n]]_vars

\* A declaration has just replaced the registration of User, beside that of
\* Post, in a program that connected through the configuration values
C15_Witness ==
    /\ trial.op = "create_collection_class"
    /\ trial.err = "ok"
    /\ trial.name = "User"
    /\ db = EnvDatabase
    /\ DOMAIN instances = {"User", "Post"}
    /\ instances["User"] = [collection |-> "users", schema |-> "schema"]
    /\ calls >= 3

\* The step is a call of delete_field by instance i that reached the store
DeleteFieldStep(i) ==
    calls' # calls /\ last'.op = "delete_field" /\ last'.inst = i /\ last'.err = "ok"

\* C16: delete_field(name) removes only the field name from the stored record
\* matched by the identity of the instance; the other fields of that record,
\* the other records and the set of records are unchanged, and so is the
\* instance in memory, the field and its value included.
C16_DeleteFieldFrame ==
    [][\A i \in Insts : DeleteFieldStep(i) =>
          /\ DOMAIN store' = DOMAIN store
          /\ \A id \in DOMAIN store :
                IF id = inst[i].id
                THEN /\ DOMAIN store'[id] = DOMAIN store[id] \ {last'.field}
                     /\ \A g \in DOMAIN store'[id] : store'[id][g] = store[id][g]
                ELSE store'[id] = store[id]
          /\ inst' = inst
          /\ nextId' = nextId]_vars

\* delete_field has just removed a field from a record with a second field,
\* while another record and the instance itself still hold that field
C16_Witness ==
    /\ last.op = "delete_field"
    /\ last.err = "ok"
    /\ \E i \in Insts :
          /\ last.inst = i
          /\ inst[i].id \in DOMAIN store
          /\ last.field \notin DOMAIN store[inst[i].id]
          /\ DOMAIN store[inst[i].id] # {}
          /\ last.field \in DOMAIN inst[i].fields
          /\ \E id \in DOMAIN store \ {inst[i].id} : last.field \in DOMAIN store[id]

\* The field of the rule has a defect in instance i
Defective(i, rule) ==
    Rejected(i, rule) \/ RequiredMissing(i, rule) \/ WrongKind(i, rule)

\* The error of the first of the three checks the field of the rule fails
FirstDefect(i, rule) ==
    IF Rejected(i, rule) THEN "invalid"
    ELSE IF RequiredMissing(i, rule) THEN "missing_required"
    ELSE "type_mismatch"

\* C17: under a schema, save() raises for the first declared field, in schema
\* order, that fails a check, with the error of the first check it fails in
\* the order validator, required-and-null, type; it raises the unknown-field
\* error exactly when no declared field fails and the instance holds an
\* undeclared field, naming such a field (never the identity).
C17_ValidationOrder ==
    [][\A i \in Insts :
        (SaveStep(i) /\ Live(i) /\ schema_of(inst[i].cls, schema).declared) =>
            /\ \A n \in 1 .. Len(RulesOf(i)) :
                 (/\ Defective(i, RulesOf(i)[n])
                  /\ \A m \in 1 .. n - 1 : ~Defective(i, RulesOf(i)[m])) =>
                     /\ last'.err = FirstDefect(i, RulesOf(i)[n])
                     /\ last'.field = RulesOf(i)[n].name
            /\ last'.err = "unknown_field" <=>
                   /\ \A n \in 1 .. Len(RulesOf(i)) : ~Defective(i, RulesOf(i)[n])
                   /\ Undeclared(i) # {}
            /\ last'.err = "unknown_field" => last'.field \in Undeclared(i)
            /\ last'.err \in FieldErrors <=>
                   \/ \E n \in 1 .. Len(RulesOf(i)) : Defective(i, RulesOf(i)[n])
                   \/ Undeclared(i) # {}]_vars

\* A save has just raised the field-validity error for a required field that
\* is null and whose validator rejects null, in an instance that also holds
\* an undeclared field
C17_Witness ==
    /\ last.op = "save"
    /\ last.err = "invalid"
    /\ last.field = "f"
    /\ schema.rules = SchemaStrict
    /\ DictGet(inst[last.inst].fields, "f") = None
    /\ "g" \in DOMAIN inst[last.inst].fields

\* C19 as claimed: whenever save() raises, whatever the reason, the instance
\* in memory is as before the call: the same fields and values, and the
\* identity attribute still present with its previous value.
C19_Original ==
    [][\A i \in Insts :
        (SaveStep(i) /\ last'.err # "ok") =>
            /\ inst'[i].fields = inst[i].fields
            /\ inst'[i].hasId = inst[i].hasId
            /\ inst'[i].id = inst[i].id]_vars

\* The record satisfies the rule: a required field is present and not null,
\* and a value that is not null is of the declared type
RecordKeeps(record, rule) ==
    /\ rule.required => rule.name \in DOMAIN record /\ record[rule.name] # None
    /\ (rule.name \in DOMAIN record /\ record[rule.name] # None) =>
           KindOf(record[rule.name]) = rule.type

\* C20: in a collection written only through save() of a class declared with
\* a schema, every stored record holds only declared fields, every required
\* field present and not null, every value that is not null of its declared
\* type.
C20_StoreKeepsSchema ==
    \A id \in DOMAIN store :
        /\ DOMAIN store[id] \subseteq Declared(schema.rules)
        /\ \A n \in 1 .. Len(schema.rules) : RecordKeeps(store[id], schema.rules[n])

\* A save under the schema has just updated a record, setting its optional
\* field to null beside the required one
C20_Witness ==
    /\ last.op = "save"
    /\ last.err = "ok"
    /\ last.upd = 1
    /\ schema.rules = SchemaPlain
    /\ inst[last.inst].id \in DOMAIN store
    /\ store[inst[last.inst].id] = inst[last.inst].fields
    /\ DOMAIN store[inst[last.inst].id] = Fields
    /\ store[inst[last.inst].id]["g"] = None

\* The step is the update that ends the save() of instance i
FinishStep(i) == proc[i].pc = "reading" /\ proc'[i].pc = "idle"

\* C18: in every interleaving of the reads and updates of two save() calls
\* by two instances holding the identity of one record, no record is created
\* or removed and the record keeps its fields; each stored value is the one
\* stored before the saves or one an instance holds; and an update stores
\* the instance's value in each field of its changed_fields, whatever was
\* stored there by the other instance, and leaves the other fields alone.
C18_ConcurrentSaves ==
    /\ [](/\ DOMAIN store = {SharedId}
          /\ DOMAIN store[SharedId] = DOMAIN SharedRecord
          /\ \A key \in DOMAIN SharedRecord :
                store[SharedId][key] \in
                    {SharedRecord[key]} \cup {inst[i].fields[key] : i \in Savers})
    /\ [][\A i \in Savers : FinishStep(i) =>
            \A key \in DOMAIN SharedRecord :
                store'[SharedId][key] =
                    IF key \in DOMAIN proc[i].changed_fields
                    THEN inst[i].fields[key]
                    ELSE store[SharedId][key]]_vars

\* Both instances have updated the field f with different values: the record
\* holds in f the value of the instance whose update came last, and in g the
\* value stored at the start although that instance holds another
C18_Witness ==
    /\ last.op = "save"
    /\ last.upd = 1
    /\ \A i \in Savers : proc[i].pc = "idle" /\ "f" \in proc[i].wrote
    /\ \E i, j \in Savers :
          /\ last.inst = i
          /\ inst[j].fields["f"] # inst[i].fields["f"]
          /\ store[SharedId]["f"] = inst[i].fields["f"]
          /\ store[SharedId]["g"] = SharedRecord["g"]
          /\ inst[i].fields["g"] # SharedRecord["g"]

====
